---- MODULE Spec2Model ----
(***************************************************************************)
(* Model of src/storage_adapter.js: the oidc-provider storage adapter that *)
(* keeps its records in one PostgreSQL table through the Bookshelf ORM.    *)
(*                                                                         *)
(* The table is a set of rows {name, id, data, expires_at}.  A nullable    *)
(* value is a sequence: << >> is SQL NULL / JS null, <<v>> is the value v. *)
(* Timestamps are milliseconds since the epoch, as Date.now() gives them.  *)
(* ret is the outcome of the last call that wrote to the table or to the   *)
(* counter; what a read returns is an operator of the state it reads.      *)
(*                                                                         *)
(* Spec issues the calls one after another, every method being one action. *)
(* SpecFail adds the upsert that one of its statements rejects.            *)
(* SpecAsync runs two calls at a time: every action is what one call does  *)
(* between two awaits, and calls holds the locals of the calls in flight.  *)
(***************************************************************************)
EXTENDS Integers, Sequences, FiniteSets, TLC

VARIABLES store, upsert_count, now, ret, calls

vars == <<store, upsert_count, now, ret, calls>>

\* ------------------------------------------------------------------ bounds
MaxNow == 2          \* the clock runs from 0 to MaxNow seconds

\* --------------------------------------------------------------- constants
PURGE_AFTER_UPSERT_EVERY == 10
MsPerSecond == 1000  \* expiresIn is in seconds, Date.now() in milliseconds

\* ------------------------------------------------------------ input values
Names == {"Session", "AccessToken"}
Ids == {"a", "b"}
Uids == {"u1", "u2"}
UserCodes == {"c1"}
GrantIds == {"g1", "g2"}
Ttls == {0, 1}

\* payloads are opaque JSON objects: functions from field names to values
P1 == ("uid" :> "u1") @@ ("grantId" :> "g1")
P2 == ("uid" :> "u2") @@ ("grantId" :> "g2")
P3 == ("userCode" :> "c1")
Payloads == {P1, P2, P3}

NULL == << >>
Some(v) == <<v>>

\* -------------------------------------------------------- pure helpers
\* Date.prototype.toISOString, as the fields of 1970-01-DDTHH:mm:ss.sssZ
\* (the clock of the model stays within January 1970)
toISOString(t) ==
    <<1 + (t \div 86400000), (t \div 3600000) % 24, (t \div 60000) % 60,
      (t \div 1000) % 60, t % 1000>>

\* jsonb containment  data @> {"<field>": "<value>"}
Contains(data, field, value) ==
    field \in DOMAIN data /\ data[field] = value

\* the sweep's comparison with < in place of <=
SqlLE_Strict(col, t) == col # NULL /\ col[1] < t

\* SQL comparisons on the nullable column: a comparison with NULL is not true
SqlGT(col, t) == col # NULL /\ col[1] > t
SqlLE(col, t) == col # NULL /\ col[1] <= t

\* the liveness filter with >= in place of >
NotExpiredWhere_Inclusive(r, t) ==
    r.expires_at = NULL \/ (r.expires_at # NULL /\ r.expires_at[1] >= t)

\* whereNull('expires_at').orWhere('expires_at', '>', new Date())
NotExpiredWhere(r, t) == r.expires_at = NULL \/ SqlGT(r.expires_at, t)

\* rows selected by  new Record({id}).fetch()
RowsById(st, id) == {r \in st : r.id = id}

\* the outcome of the last writing call: branch is the branch an upsert took,
\* deleted the number of rows the call's DELETE statement removed
Call(op, arg, name, payload, status, branch, deleted) ==
    [op |-> op, arg |-> arg, name |-> name, payload |-> payload,
     status |-> status, branch |-> branch, deleted |-> deleted]

\* the callers whose calls can be in flight together
Procs == {"p1", "p2"}

\* the locals of a call in flight: pc is the statement the call awaits next,
\* cutoff the new Date() of its sweep, data and expires_at the attributes it
\* is going to save; stale records that a row of its id was deleted after
\* the call started
InFlight(op, pc, name, id, data, expiresIn, cutoff, expires_at, stale) ==
    [op |-> op, pc |-> pc, name |-> name, id |-> id, data |-> data,
     expiresIn |-> expiresIn, cutoff |-> cutoff, expires_at |-> expires_at,
     stale |-> stale]

Idle == InFlight("idle", "", "", "", NULL, 0, NULL, NULL, FALSE)

\* a DELETE that removed the rows `gone` is remembered by the upserts in
\* flight for one of their ids
MarkStale(cs, gone) ==
    [p \in DOMAIN cs |->
        IF cs[p].op = "upsert" /\ \E r \in gone : r.id = cs[p].id
        THEN [cs[p] EXCEPT !.stale = TRUE] ELSE cs[p]]

Init ==
    /\ store = {}
    /\ upsert_count = 0
    /\ now = 0
    /\ ret = Call("none", "", "", NULL, "fulfilled", "", 0)
    /\ calls = [p \in Procs |-> Idle]

\* ---------------------------------------------------------- purgeExpired
\* the gate with <= in place of <
PurgeDue_Late(cnt) == ~(cnt + 1 <= PURGE_AFTER_UPSERT_EVERY)

\* the gate: ++upsert_count < PURGE_AFTER_UPSERT_EVERY returns early
PurgeDue(cnt) == ~(cnt + 1 < PURGE_AFTER_UPSERT_EVERY)

\* a gate that never resets the counter
CountAfterPurge_NoReset(cnt) == cnt + 1

\* the counter after the gate: incremented, and reset when the sweep is due
CountAfterPurge(cnt) == IF PurgeDue(cnt) THEN 0 ELSE cnt + 1

\* new Record().where('expires_at', '<=', new Date()).destroy()
Sweep(st, t) == {r \in st : ~SqlLE(r.expires_at, t)}

StoreAfterPurge(st, cnt, t) == IF PurgeDue(cnt) THEN Sweep(st, t) ELSE st

Swept(st, cnt, t) == Cardinality(st \ StoreAfterPurge(st, cnt, t))

purgeExpired ==
    /\ store' = StoreAfterPurge(store, upsert_count, now)
    /\ upsert_count' = CountAfterPurge(upsert_count)
    /\ ret' = Call("purgeExpired", "", "", NULL, "fulfilled", "",
                   Swept(store, upsert_count, now))
    /\ calls' = MarkStale(calls, store \ store')
    /\ UNCHANGED now

\* ---------------------------------------------------------------- upsert
\* expires_at of update_data: set only when expiresIn is truthy
UpdateExpiresAt(expiresIn, old, t) ==
    IF expiresIn # 0 THEN Some(t + expiresIn * MsPerSecond) ELSE old

\* record.set(update_data).save(): UPDATE ... WHERE id = id
SaveUpdate(st, name, id, payload, expiresIn, t) ==
    {IF r.id = id
     THEN [name |-> name, id |-> r.id, data |-> payload,
           expires_at |-> UpdateExpiresAt(expiresIn, r.expires_at, t)]
     ELSE r : r \in st}

\* new Record(update_data).save({}, {method: 'insert'})
SaveInsert(st, name, id, payload, expiresIn, t) ==
    st \cup {[name |-> name, id |-> id, data |-> payload,
              expires_at |-> UpdateExpiresAt(expiresIn, NULL, t)]}

\* an upsert that inserts without looking for the record
UpsertBranch_AlwaysInsert(st, id) == "insert"

\* let record = await new Record({id}).fetch(); if (record) ... else ...
UpsertBranch(st, id) == IF RowsById(st, id) # {} THEN "update" ELSE "insert"

UpsertWrite(st, name, id, payload, expiresIn, t) ==
    IF UpsertBranch(st, id) = "update"
    THEN SaveUpdate(st, name, id, payload, expiresIn, t)
    ELSE SaveInsert(st, name, id, payload, expiresIn, t)

upsert(name, id, payload, expiresIn) ==
    /\ store' = UpsertWrite(StoreAfterPurge(store, upsert_count, now),
                            name, id, payload, expiresIn, now)
    /\ upsert_count' = CountAfterPurge(upsert_count)
    /\ ret' = Call("upsert", id, name, Some(payload), "fulfilled",
                   UpsertBranch(StoreAfterPurge(store, upsert_count, now), id),
                   Swept(store, upsert_count, now))
    /\ UNCHANGED <<now, calls>>

\* the statements of upsert that the storage can reject
FailStmts == {"sweep", "fetch", "save"}

\* a rejected upsert that commits its sweep although the sweep was rejected
UpsertFailStore_SweepApplied(st, cnt, t, stmt) == StoreAfterPurge(st, cnt, t)

\* the table after an upsert whose statement stmt was rejected: the awaits of
\* upsert are not in a transaction, so what ran before stmt stays committed
UpsertFailStore(st, cnt, t, stmt) ==
    IF stmt = "sweep" THEN st ELSE StoreAfterPurge(st, cnt, t)

\* an upsert of id rejected by the storage at stmt: the sweep is issued only
\* when the gate says it is due, and the counter has moved before any
\* statement; the instance, payload and expiresIn of the call are never stored
upsertFails(id, stmt) ==
    /\ stmt = "sweep" => PurgeDue(upsert_count)
    /\ store' = UpsertFailStore(store, upsert_count, now, stmt)
    /\ upsert_count' = CountAfterPurge(upsert_count)
    /\ ret' = Call("upsert", id, "", NULL, "rejected", stmt,
                   Cardinality(store \ UpsertFailStore(store, upsert_count, now, stmt)))
    /\ calls' = MarkStale(calls, store \ store')
    /\ UNCHANGED now

\* ------------------------------------------------------------------ reads
\* the secondary lookup without its liveness filter
FindByFieldRows_NoExpiry(st, field, value, t) ==
    {r \in st : Contains(r.data, field, value)}

\* fetch() gives the data of one of the selected rows, or null when there
\* is none
FetchResults(rows) ==
    IF rows = {} THEN {NULL} ELSE {Some(r.data) : r \in rows}

FindRows(st, id, t) == {r \in st : r.id = id /\ NotExpiredWhere(r, t)}

FindByFieldRows(st, field, value, t) ==
    {r \in st : Contains(r.data, field, value) /\ NotExpiredWhere(r, t)}

\* the values find(id) can return
findResult(st, id, t) == FetchResults(FindRows(st, id, t))

findByUidResult(st, uid, t) == FetchResults(FindByFieldRows(st, "uid", uid, t))

findByUserCodeResult(st, userCode, t) ==
    FetchResults(FindByFieldRows(st, "userCode", userCode, t))

\* a listing without its WHERE name clause
getAllResult_AllNames(st, name) == st

\* new Record().where('name', this.name).fetchAll()
getAllResult(st, name) == {r \in st : r.name = name}

\* a find that asks the purge gate, as upsert does
find_Purging(id) ==
    /\ findResult(store, id, now) # {}
    /\ store' = StoreAfterPurge(store, upsert_count, now)
    /\ upsert_count' = CountAfterPurge(upsert_count)
    /\ UNCHANGED <<now, ret, calls>>

find(id) ==
    /\ UNCHANGED vars
    /\ findResult(store, id, now) # {}

findByUid(uid) ==
    /\ UNCHANGED vars
    /\ findByUidResult(store, uid, now) # {}

findByUserCode(userCode) ==
    /\ UNCHANGED vars
    /\ findByUserCodeResult(store, userCode, now) # {}

getAll(name) ==
    /\ UNCHANGED vars
    /\ getAllResult(store, name) \subseteq store

\* --------------------------------------------------------------- consume
\* a consume that stores the marker alone
SetConsumed_Alone(data, t) == [f \in {"consumed"} |-> toISOString(t)]

\* data.consumed = new Date().toISOString()
SetConsumed(data, t) ==
    [f \in DOMAIN data \cup {"consumed"} |->
        IF f = "consumed" THEN toISOString(t) ELSE data[f]]

\* record.save({data}, {method: 'update', patch: true})
SavePatch(st, id, t) ==
    {IF r.id = id THEN [r EXCEPT !.data = SetConsumed(r.data, t)] ELSE r : r \in st}

\* a consume that tolerates a missing record
ConsumeStatus_Lenient(st, id) == "fulfilled"

\* record is null when no row has the id: record.get('data') throws
ConsumeStatus(st, id) == IF RowsById(st, id) = {} THEN "rejected" ELSE "fulfilled"

consume(name, id) ==
    /\ store' = IF ConsumeStatus(store, id) = "rejected" THEN store
                ELSE SavePatch(store, id, now)
    /\ ret' = Call("consume", id, "", NULL, ConsumeStatus(store, id), "", 0)
    /\ UNCHANGED <<upsert_count, now, calls>>

\* --------------------------------------------------------------- destroy
\* a destroy whose DELETE has no WHERE clause
DestroyById_All(st, id) == {}

\* new Record({id}).destroy({require: false})
DestroyById(st, id) == {r \in st : r.id # id}

\* a destroy that asks the purge gate first, as upsert does
destroy_Purging(name, id) ==
    /\ store' = DestroyById(StoreAfterPurge(store, upsert_count, now), id)
    /\ upsert_count' = CountAfterPurge(upsert_count)
    /\ ret' = Call("destroy", id, "", NULL, "fulfilled", "",
                   Cardinality(store \ DestroyById(store, id)))
    /\ calls' = MarkStale(calls, store \ store')
    /\ UNCHANGED now

\* `name` is the instance the method is called on; destroy, consume and
\* revokeByGrantId never read this.name
destroy(name, id) ==
    /\ store' = DestroyById(store, id)
    /\ ret' = Call("destroy", id, "", NULL, "fulfilled", "",
                   Cardinality(store \ DestroyById(store, id)))
    /\ calls' = MarkStale(calls, store \ store')
    /\ UNCHANGED <<upsert_count, now>>

\* ------------------------------------------------------- revokeByGrantId
\* a revoke that also deletes the records without grantId
RevokeRows_Loose(st, grantId) ==
    {r \in st : "grantId" \in DOMAIN r.data /\ r.data["grantId"] # grantId}

\* new Record().where('data', '@>', {"grantId": grantId}).destroy()
RevokeRows(st, grantId) == {r \in st : ~Contains(r.data, "grantId", grantId)}

revokeByGrantId(name, grantId) ==
    /\ store' = RevokeRows(store, grantId)
    /\ ret' = Call("revokeByGrantId", grantId, "", NULL, "fulfilled", "",
                   Cardinality(store \ RevokeRows(store, grantId)))
    /\ calls' = MarkStale(calls, store \ store')
    /\ UNCHANGED <<upsert_count, now>>

\* ----------------------------------------------------------------- clock
Tick ==
    /\ now + MsPerSecond <= MaxNow * MsPerSecond
    /\ now' = now + MsPerSecond
    /\ UNCHANGED <<store, upsert_count, ret, calls>>

Next ==
    \/ \E n \in Names, id \in Ids, p \in Payloads, ttl \in Ttls : upsert(n, id, p, ttl)
    \/ \E id \in Ids : find(id)
    \/ \E uid \in Uids : findByUid(uid)
    \/ \E c \in UserCodes : findByUserCode(c)
    \/ \E n \in Names, id \in Ids : consume(n, id)
    \/ \E n \in Names, id \in Ids : destroy(n, id)
    \/ \E n \in Names, g \in GrantIds : revokeByGrantId(n, g)
    \/ purgeExpired
    \/ \E n \in Names : getAll(n)
    \/ Tick

Spec == Init /\ [][Next]_vars

\* upserts one after another, some of them rejected by the storage
NextFail ==
    \/ \E n \in Names, id \in Ids, p \in Payloads, ttl \in Ttls : upsert(n, id, p, ttl)
    \/ \E id \in Ids, stmt \in FailStmts : upsertFails(id, stmt)
    \/ Tick

SpecFail == Init /\ [][NextFail]_vars

\* ----------------------------------------------------- calls in flight
\* Each action below is what one call does from one await to the next: the
\* statement it awaited runs in the database, and the code up to the next
\* await runs with its answer.  destroy and revokeByGrantId are one statement
\* and stay one action.  Both callers issue upserts, which then overlap with
\* one another; the second one also issues consume and purgeExpired, which
\* then overlap with an upsert.  All calls are about one id.
Upserters == Procs
Others == {"p2"}
AsyncNames == {"Session"}
AsyncIds == {"a"}
AsyncPayloads == {P1, P2}
AsyncTtls == {1}
AsyncGrantIds == {"g1"}

\* the row a call in flight is going to save
ModelRow(c) ==
    [name |-> c.name, id |-> c.id, data |-> c.data[1], expires_at |-> c.expires_at]

\* the call of p is over
Resolve(p, op, id, status, branch, deleted) ==
    /\ calls' = [MarkStale(calls, store \ store') EXCEPT ![p] = Idle]
    /\ ret' = Call(op, id, "", NULL, status, branch, deleted)

\* the call of p goes on to its next await
Await(p, c) ==
    /\ calls' = [MarkStale(calls, store \ store') EXCEPT
                    ![p] = [c EXCEPT !.stale = MarkStale(calls, store \ store')[p].stale]]
    /\ UNCHANGED ret

\* upsert enters purgeExpired, which runs up to its await: the counter moves,
\* and when the sweep is due its DELETE is issued with the current time
upsertStart(p, name, id, payload, expiresIn) ==
    /\ calls[p] = Idle
    /\ upsert_count' = CountAfterPurge(upsert_count)
    /\ calls' = [calls EXCEPT ![p] =
          IF PurgeDue(upsert_count)
          THEN InFlight("upsert", "sweep", name, id, Some(payload), expiresIn,
                        Some(now), NULL, FALSE)
          ELSE InFlight("upsert", "fetch", name, id, Some(payload), expiresIn,
                        NULL, UpdateExpiresAt(expiresIn, NULL, now), FALSE)]
    /\ UNCHANGED <<store, now, ret>>

\* a direct call of purgeExpired(): it returns at once when no sweep is due
purgeExpiredStart(p) ==
    /\ calls[p] = Idle
    /\ upsert_count' = CountAfterPurge(upsert_count)
    /\ IF PurgeDue(upsert_count)
       THEN /\ calls' = [calls EXCEPT ![p] =
                   InFlight("purgeExpired", "sweep", "", "", NULL, 0, Some(now),
                            NULL, FALSE)]
            /\ UNCHANGED ret
       ELSE /\ calls' = calls
            /\ ret' = Call("purgeExpired", "", "", NULL, "fulfilled", "", 0)
    /\ UNCHANGED <<store, now>>

\* the sweep's DELETE runs; an upsert then builds update_data and issues its
\* fetch
sweepRuns(p) ==
    /\ calls[p].pc = "sweep"
    /\ store' = Sweep(store, calls[p].cutoff[1])
    /\ IF calls[p].op = "purgeExpired"
       THEN Resolve(p, "purgeExpired", "", "fulfilled", "",
                    Cardinality(store \ store'))
       ELSE Await(p, [calls[p] EXCEPT
                !.pc = "fetch", !.cutoff = NULL,
                !.expires_at = UpdateExpiresAt(calls[p].expiresIn, NULL, now)])
    /\ UNCHANGED <<upsert_count, now>>

\* the attributes of the model upsert saves on its update branch: the fetched
\* ones overwritten by update_data, which has expires_at only when expiresIn
\* is truthy
SetUpdateData(c, fetched) ==
    [c EXCEPT !.expires_at = IF c.expiresIn # 0 THEN c.expires_at
                             ELSE fetched.expires_at]

\* the fetch of upsert runs and picks the branch
upsertFetch(p) ==
    /\ calls[p].op = "upsert" /\ calls[p].pc = "fetch"
    /\ calls' = [calls EXCEPT ![p] =
          IF UpsertBranch(store, calls[p].id) = "update"
          THEN [SetUpdateData(calls[p], CHOOSE r \in RowsById(store, calls[p].id) : TRUE)
                   EXCEPT !.pc = "update"]
          ELSE [calls[p] EXCEPT !.pc = "insert"]]
    /\ UNCHANGED <<store, upsert_count, now, ret>>

\* the id column is unique: an INSERT of an id that has a row is rejected
InsertStatus(st, id) == IF RowsById(st, id) # {} THEN "rejected" ELSE "fulfilled"

\* an UPDATE that creates the row it does not find
UpdateRows_Upserting(st, row) == {r \in st : r.id # row.id} \cup {row}

\* UPDATE ... WHERE id = row.id rewrites the rows it matches
UpdateRows(st, row) == {IF r.id = row.id THEN row ELSE r : r \in st}

\* save() with method update is rejected when it matched no row
UpdateStatus(st, id) == IF RowsById(st, id) = {} THEN "rejected" ELSE "fulfilled"

\* the save of upsert runs: the UPDATE of the fetched record or the INSERT
upsertSave(p) ==
    /\ calls[p].op = "upsert" /\ calls[p].pc \in {"update", "insert"}
    /\ store' = IF calls[p].pc = "update"
                THEN UpdateRows(store, ModelRow(calls[p]))
                ELSE IF InsertStatus(store, calls[p].id) = "rejected" THEN store
                ELSE store \cup {ModelRow(calls[p])}
    /\ Resolve(p, "upsert", calls[p].id,
               IF calls[p].pc = "update" THEN UpdateStatus(store, calls[p].id)
               ELSE InsertStatus(store, calls[p].id),
               calls[p].pc, 0)
    /\ UNCHANGED <<upsert_count, now>>

\* consume issues its fetch, the fetch runs, and consume sets data.consumed on
\* what it fetched; without a record, record.get throws
consumeFetch(p, name, id) ==
    /\ calls[p] = Idle
    /\ IF ConsumeStatus(store, id) = "rejected"
       THEN /\ calls' = calls
            /\ ret' = Call("consume", id, "", NULL, "rejected", "fetch", 0)
       ELSE /\ calls' = [calls EXCEPT ![p] =
                   InFlight("consume", "patch", "", id,
                            Some(SetConsumed((CHOOSE r \in RowsById(store, id) : TRUE).data, now)),
                            0, NULL, NULL, FALSE)]
            /\ UNCHANGED ret
    /\ UNCHANGED <<store, upsert_count, now>>

\* save({data}, {method: 'update', patch: true}): UPDATE SET data = the data
\* consume built, WHERE id = id
PatchRows(st, id, data) ==
    {IF r.id = id THEN [r EXCEPT !.data = data] ELSE r : r \in st}

\* the save of consume runs
consumeSave(p) ==
    /\ calls[p].op = "consume" /\ calls[p].pc = "patch"
    /\ store' = PatchRows(store, calls[p].id, calls[p].data[1])
    /\ Resolve(p, "consume", calls[p].id, UpdateStatus(store, calls[p].id), "patch", 0)
    /\ UNCHANGED <<upsert_count, now>>

\* the storage rejects the statement the call of p awaits: the call is
\* rejected with that failure and issues nothing more
statementFails(p) ==
    /\ calls[p] # Idle
    /\ UNCHANGED <<store, upsert_count, now>>
    /\ Resolve(p, calls[p].op, calls[p].id, "rejected", "storage", 0)

NextAsync ==
    \/ \E p \in Upserters, n \in AsyncNames, id \in AsyncIds, d \in AsyncPayloads,
          ttl \in AsyncTtls :
          upsertStart(p, n, id, d, ttl)
    \/ \E p \in Others : purgeExpiredStart(p)
    \/ \E p \in Procs : sweepRuns(p)
    \/ \E p \in Procs : upsertFetch(p)
    \/ \E p \in Procs : upsertSave(p)
    \/ \E p \in Others, n \in AsyncNames, id \in AsyncIds : consumeFetch(p, n, id)
    \/ \E p \in Procs : consumeSave(p)
    \/ \E p \in Procs : statementFails(p)
    \/ \E n \in AsyncNames, id \in AsyncIds : destroy(n, id)
    \/ \E n \in AsyncNames, g \in AsyncGrantIds : revokeByGrantId(n, g)
    \/ Tick

SpecAsync == Init /\ [][NextAsync]_vars

\* ================================================================ claims
\* the instants at which a query can be asked, one step past the horizon
ClockValues == {k * MsPerSecond : k \in 0..(MaxNow + 1)}

\* the expiry policy as the specification words it
IsLive(r, t) == r.expires_at = NULL \/ r.expires_at[1] > t

ExpiredAt(r, t) == r.expires_at # NULL /\ r.expires_at[1] <= t

\* the step is a call of op: only Tick moves the clock, and every writing
\* call leaves its outcome in ret
Did(op) == now' = now /\ ret'.op = op

\* C1: at every clock value find(id) returns the stored payload of the record
\* with that id exactly when that record exists and is live (expires_at null
\* or strictly later than the clock), and null in every other case.
C1_FindReturnsLiveOnly ==
    \A id \in Ids, t \in ClockValues :
        findResult(store, id, t) =
            IF \E r \in store : r.id = id /\ IsLive(r, t)
            THEN {Some(r.data) : r \in {x \in store : x.id = id}}
            ELSE {NULL}

\* an unswept record whose expires_at equals the clock is hidden, while the
\* other record is returned
C1_Witness ==
    /\ \E r \in store : r.expires_at = Some(now) /\ findResult(store, r.id, now) = {NULL}
    /\ \E r \in store : r.expires_at # NULL /\ findResult(store, r.id, now) = {Some(r.data)}

\* C2: an upsert leaves the record of its id with expires_at = null when
\* expiresIn is 0 and with expires_at = now + expiresIn seconds otherwise,
\* on the insert branch and on the replace branch alike.
C2_UpsertSetsExpiry ==
    [][\A n \in Names, id \in Ids, p \in Payloads, ttl \in Ttls :
          upsert(n, id, p, ttl) =>
              /\ RowsById(store', id) # {}
              /\ \A r \in RowsById(store', id) :
                    r.expires_at = IF ttl = 0 THEN NULL
                                   ELSE Some(now + ttl * MsPerSecond)]_vars

\* C3: the table never holds two records with one id, and after an upsert
\* the one record of its id holds that upsert's payload and the namespace of
\* the instance that made it.
C3_OneRecordPerId ==
    /\ \A r1, r2 \in store : r1.id = r2.id => r1 = r2
    /\ ret.op = "upsert" =>
          /\ Cardinality(RowsById(store, ret.arg)) = 1
          /\ \A r \in RowsById(store, ret.arg) :
                r.data = ret.payload[1] /\ r.name = ret.name

\* an upsert replaced an existing record while another record is stored
C3_Witness ==
    /\ ret.op = "upsert" /\ ret.branch = "update"
    /\ Cardinality(store) = 2
    /\ \E r \in store : r.id = ret.arg /\ r.data = ret.payload[1] /\ r.name = ret.name

\* C4: every upsert advances the one shared counter, and exactly the upsert
\* that brings it to PURGE_AFTER_UPSERT_EVERY resets it and sweeps before its
\* write: after that upsert no expired record is left, and any other upsert
\* leaves the expired records of other ids in place.
C4_PurgeCadence ==
    [][Did("upsert") =>
          /\ upsert_count' = (upsert_count + 1) % PURGE_AFTER_UPSERT_EVERY
          /\ IF upsert_count + 1 = PURGE_AFTER_UPSERT_EVERY
             THEN \A r \in store' : ~ExpiredAt(r, now)
             ELSE \A r \in store :
                     (ExpiredAt(r, now) /\ r.id # ret'.arg) => r \in store']_vars

\* the tenth upsert swept an expired record nobody looked up
C4_Witness ==
    /\ ret.op = "upsert" /\ ret.deleted > 0
    /\ upsert_count = 0

\* C5: consume of an existing record keeps the record, its id, namespace and
\* expires_at and every payload field but consumed, which becomes the current
\* timestamp; find on it answers as before, with the marked payload if live.
C5_ConsumeOnlyMarks ==
    [][\A id \in Ids :
          (Did("consume") /\ ret'.arg = id /\ RowsById(store, id) # {}) =>
              /\ ret'.status = "fulfilled"
              /\ \A r \in store : r.id # id => r \in store'
              /\ Cardinality(store') = Cardinality(store)
              /\ \A r \in RowsById(store, id) :
                    \E r2 \in RowsById(store', id) :
                        /\ r2.name = r.name
                        /\ r2.expires_at = r.expires_at
                        /\ DOMAIN r2.data = DOMAIN r.data \cup {"consumed"}
                        /\ r2.data["consumed"] = toISOString(now)
                        /\ \A f \in DOMAIN r.data \ {"consumed"} : r2.data[f] = r.data[f]
                        /\ findResult(store', id, now) =
                              IF IsLive(r, now) THEN {Some(r2.data)} ELSE {NULL}]_vars

\* a record consumed for the second time: its mark is the later timestamp and
\* it is still found
C5_Witness ==
    /\ ret.op = "consume" /\ ret.status = "fulfilled"
    /\ now > 0
    /\ \E r \in RowsById(store, ret.arg) :
          /\ "consumed" \in DOMAIN r.data
          /\ r.data["consumed"] = toISOString(now)
          /\ findResult(store, ret.arg, now) = {Some(r.data)}

\* C6: consume of an id that has no record is rejected and changes nothing in
\* the table.
C6_ConsumeMissingRejects ==
    [][\A id \in Ids :
          (Did("consume") /\ ret'.arg = id /\ RowsById(store, id) = {}) =>
              /\ ret'.status = "rejected"
              /\ store' = store]_vars

\* consume was rejected for a missing id while another record is stored
C6_Witness ==
    /\ ret.op = "consume" /\ ret.status = "rejected"
    /\ RowsById(store, ret.arg) = {}
    /\ store # {}

\* C7: destroy is fulfilled whether or not the id has a record; afterwards
\* the id has no record and find answers null, a second destroy changes
\* nothing, and the records of other ids are as they were.
C7_DestroyIdempotent ==
    [][\A id \in Ids :
          (Did("destroy") /\ ret'.arg = id) =>
              /\ ret'.status = "fulfilled"
              /\ RowsById(store', id) = {}
              /\ findResult(store', id, now) = {NULL}
              /\ DestroyById(store', id) = store'
              /\ store' \subseteq store
              /\ \A r \in store : r.id # id => r \in store']_vars

\* a destroy found nothing to delete, and another record is untouched
C7_Witness ==
    /\ ret.op = "destroy" /\ ret.status = "fulfilled" /\ ret.deleted = 0
    /\ RowsById(store, ret.arg) = {}
    /\ store # {}

\* C8: revokeByGrantId(g) removes the records whose payload has grantId = g,
\* expired or not, keeps every record whose grantId differs or is missing,
\* and is fulfilled also when nothing matches.
C8_RevokeOnlyMatches ==
    [][\A g \in GrantIds :
          (Did("revokeByGrantId") /\ ret'.arg = g) =>
              /\ ret'.status = "fulfilled"
              /\ \A r \in store' : "grantId" \notin DOMAIN r.data \/ r.data["grantId"] # g
              /\ store' \subseteq store
              /\ \A r \in store :
                    ("grantId" \notin DOMAIN r.data \/ r.data["grantId"] # g) => r \in store']_vars

\* a revoke removed an expired match and left a record without grantId
C8_Witness ==
    /\ ret.op = "revokeByGrantId" /\ ret.deleted > 0
    /\ \E r \in store : "grantId" \notin DOMAIN r.data

\* C9: findByUid(u) and findByUserCode(c) return the payload of a live record
\* whose field equals the value, and null when no live record has it; an
\* expired record with the value never masks a live one.
LiveWithField(st, field, value, t) ==
    {r \in st : IsLive(r, t) /\ field \in DOMAIN r.data /\ r.data[field] = value}

ExpectedByField(st, field, value, t) ==
    IF LiveWithField(st, field, value, t) = {} THEN {NULL}
    ELSE {Some(r.data) : r \in LiveWithField(st, field, value, t)}

C9_SecondaryLookupLiveOnly ==
    \A t \in ClockValues :
        /\ \A u \in Uids :
              findByUidResult(store, u, t) = ExpectedByField(store, "uid", u, t)
        /\ \A c \in UserCodes :
              findByUserCodeResult(store, c, t) = ExpectedByField(store, "userCode", c, t)

\* an expired and a live record carry the same uid: the live one is returned
C9_Witness ==
    \E r1, r2 \in store :
        /\ r1.id # r2.id
        /\ "uid" \in DOMAIN r1.data /\ "uid" \in DOMAIN r2.data
        /\ r1.data["uid"] = r2.data["uid"] /\ r1.data # r2.data
        /\ ExpiredAt(r1, now) /\ IsLive(r2, now)
        /\ findByUidResult(store, r1.data["uid"], now) = {Some(r2.data)}

\* C10: after a direct call of purgeExpired() no record with a non-null
\* expires_at <= now is left, whatever the counter was.
C10_PurgeExpiredPurges ==
    [][Did("purgeExpired") => \A r \in store' : ~ExpiredAt(r, now)]_vars

\* C11: getAll() of an instance returns exactly the records whose namespace
\* is the instance's, expired ones included, and a record replaced by an
\* upsert of another instance is listed under that instance's namespace only.
C11_GetAllByNamespace ==
    /\ \A n \in Names, r \in store : r \in getAllResult(store, n) <=> r.name = n
    /\ \A n \in Names : getAllResult(store, n) \subseteq store
    /\ (ret.op = "upsert" /\ ret.status = "fulfilled") =>
          \A r \in RowsById(store, ret.arg), n \in Names :
              r \in getAllResult(store, n) <=> n = ret.name

\* an upsert replaced a record; the listing of its namespace holds it and the
\* listing of the other namespace holds an expired record
C11_Witness ==
    /\ ret.op = "upsert" /\ ret.branch = "update"
    /\ \E r \in getAllResult(store, ret.name) : r.id = ret.arg
    /\ \E n \in Names \ {ret.name} :
          \E r \in getAllResult(store, n) : ExpiredAt(r, now)

\* C12: a sweep at clock value t keeps exactly the records that are live at
\* t, in every namespace: a record without expiry or with expires_at > t is
\* kept, and a record is swept exactly when find hides it.
C12_SweepDeletesNotLive ==
    \A t \in ClockValues :
        /\ Sweep(store, t) = {r \in store : IsLive(r, t)}
        /\ \A r \in store :
              r \in Sweep(store, t) <=> findResult(store, r.id, t) = {Some(r.data)}

\* a sweep deleted a record and kept one that has an expiry in the future
C12_Witness ==
    /\ ret.op \in {"upsert", "purgeExpired"} /\ ret.deleted > 0
    /\ \E r \in store : r.expires_at # NULL /\ r.id # ret.arg /\ IsLive(r, now)

\* C13 as claimed: every mutating call (upsert, consume, destroy,
\* revokeByGrantId) advances the shared counter before its own write.
C13_EveryMutationAsksPurge ==
    [][(now' = now /\ ret'.op \in {"upsert", "consume", "destroy", "revokeByGrantId"}) =>
          upsert_count' = (upsert_count + 1) % PURGE_AFTER_UPSERT_EVERY]_vars

\* C13 as amended: of the mutating calls only upsert asks the purge gate;
\* consume, destroy and revokeByGrantId leave the counter as it is and delete
\* no expired record other than the ones they are aimed at.
C13_OnlyUpsertAsksPurge ==
    [][/\ Did("upsert") => upsert_count' # upsert_count
       /\ (now' = now /\ ret'.op \in {"consume", "destroy", "revokeByGrantId"}) =>
             /\ upsert_count' = upsert_count
             /\ \A r \in store :
                   (/\ ExpiredAt(r, now)
                    /\ r.id # ret'.arg
                    /\ ~Contains(r.data, "grantId", ret'.arg)) => r \in store']_vars

\* a destroy ran when the counter was one short of the threshold: the counter
\* is still there and an expired record is still stored
C13_Witness ==
    /\ ret.op = "destroy"
    /\ upsert_count = PURGE_AFTER_UPSERT_EVERY - 1
    /\ \E r \in store : ExpiredAt(r, now)

\* C14 as claimed: a rejected upsert whose sweep failed leaves the table as
\* it was, and after any rejected upsert the record of its id is exactly what
\* it was before the call.
C14_RejectedUpsertKeepsRecord ==
    [][(Did("upsert") /\ ret'.status = "rejected") =>
          /\ ret'.branch = "sweep" => store' = store
          /\ RowsById(store', ret'.arg) = RowsById(store, ret'.arg)]_vars

\* C14 as amended: a rejected upsert writes nothing, and when its sweep was
\* rejected the table is as it was; when a later statement was rejected the
\* sweep stays committed, so the table is the one before the call less the
\* records that were expired, the one of the target id included.
C14_RejectedUpsertWritesNothing ==
    [][(Did("upsert") /\ ret'.status = "rejected") =>
          /\ ret'.branch = "sweep" => store' = store
          /\ store' \subseteq store
          /\ \A r \in store \ store' : ExpiredAt(r, now)
          /\ \A r \in store : IsLive(r, now) => r \in store'
          /\ upsert_count' = (upsert_count + 1) % PURGE_AFTER_UPSERT_EVERY]_vars

\* the sweep of an upsert was rejected: the expired record of the target id
\* is still stored and the counter stays reset
C14_Witness ==
    /\ ret.op = "upsert" /\ ret.status = "rejected" /\ ret.branch = "sweep"
    /\ upsert_count = 0
    /\ \E r \in RowsById(store, ret.arg) : ExpiredAt(r, now)

\* C15: the save of an upsert that follows the fulfilled write of another
\* upsert of the same id, whatever its fetch saw, is fulfilled unless the
\* storage fails, and leaves exactly one record of the id, holding its own
\* payload (last write wins).
C15_LastWriteWins ==
    [][\A p \in Procs :
          (/\ calls[p].op = "upsert" /\ calls[p].pc \in {"update", "insert"}
           /\ ret.op = "upsert" /\ ret.status = "fulfilled" /\ ret.arg = calls[p].id
           /\ calls'[p] = Idle /\ ret'.op = "upsert" /\ ret'.branch # "storage") =>
              /\ ret'.status = "fulfilled"
              /\ RowsById(store', calls[p].id) = {ModelRow(calls[p])}]_vars

\* C16: the save of a consume keeps, in the record of its id, every payload
\* field other than consumed as it was stored just before the save, also when
\* an upsert replaced the payload after the consume fetched it.
C16_ConsumeKeepsPayload ==
    [][\A p \in Procs :
          (/\ calls[p].op = "consume" /\ calls[p].pc = "patch"
           /\ calls'[p] = Idle /\ ret'.op = "consume" /\ ret'.status = "fulfilled") =>
              \A r \in RowsById(store, calls[p].id) :
                  \E r2 \in RowsById(store', calls[p].id) :
                      \A f \in DOMAIN r.data \ {"consumed"} :
                          f \in DOMAIN r2.data /\ r2.data[f] = r.data[f]]_vars

\* the save of p runs on an id that has no record
SavesOnMissing(p) ==
    /\ calls[p].pc \in {"patch", "update"}
    /\ calls'[p] = Idle
    /\ RowsById(store, calls[p].id) = {}

\* C17 as claimed: an id without record gets one only through the insert of
\* an upsert that started after every removal of the id, and the save of a
\* consume or of an upsert's update branch on a removed record changes
\* nothing.
C17_BackOnlyByLaterUpsert ==
    [][/\ \A id \in AsyncIds :
             (RowsById(store, id) = {} /\ RowsById(store', id) # {}) =>
                 \E p \in Procs :
                     /\ calls[p].op = "upsert" /\ calls[p].id = id
                     /\ calls[p].pc = "insert" /\ calls'[p] = Idle
                     /\ ~calls[p].stale
       /\ \A p \in Procs : SavesOnMissing(p) => store' = store]_vars

\* C17 as amended: an id without record gets one only through the insert
\* branch of an upsert, which may have started before the removal, and the
\* save of a consume or of an upsert's update branch on a removed record is
\* rejected and changes nothing.
C17_BackOnlyByInsert ==
    [][/\ \A id \in AsyncIds :
             (RowsById(store, id) = {} /\ RowsById(store', id) # {}) =>
                 \E p \in Procs :
                     /\ calls[p].op = "upsert" /\ calls[p].id = id
                     /\ calls[p].pc = "insert" /\ calls'[p] = Idle
                     /\ RowsById(store', id) = {ModelRow(calls[p])}
       /\ \A p \in Procs :
             (SavesOnMissing(p) /\ ret'.branch # "storage") =>
                 /\ store' = store
                 /\ ret'.status = "rejected"]_vars

\* the save of a call that had fetched the record found it removed, and the
\* id is still without record
C17_Witness ==
    /\ ret.op \in {"consume", "upsert"} /\ ret.status = "rejected"
    /\ ret.branch \in {"patch", "update"}
    /\ RowsById(store, ret.arg) = {}

\* the step is the entry of a call into purgeExpired
EntersPurge ==
    \E p \in Procs :
        \/ purgeExpiredStart(p)
        \/ \E n \in AsyncNames, id \in AsyncIds, d \in AsyncPayloads, ttl \in AsyncTtls :
              upsertStart(p, n, id, d, ttl)

\* the step issues a sweep
StartsSweep == \E p \in Procs : calls[p].pc # "sweep" /\ calls'[p].pc = "sweep"

\* C18: between steps the counter is within 0..N-1; every entry into
\* purgeExpired advances it by one modulo N and issues a sweep exactly when
\* it wraps to 0, so the sweeps issued are one per N entries; no other step,
\* a rejected sweep or write included, moves the counter or issues a sweep.
C18_GateIsAtomic ==
    [][/\ upsert_count' \in 0..(PURGE_AFTER_UPSERT_EVERY - 1)
       /\ IF EntersPurge
          THEN /\ upsert_count' = (upsert_count + 1) % PURGE_AFTER_UPSERT_EVERY
               /\ StartsSweep <=> upsert_count + 1 = PURGE_AFTER_UPSERT_EVERY
          ELSE /\ upsert_count' = upsert_count
               /\ ~StartsSweep]_vars

\* a sweep is in flight next to an upsert that entered before it, the counter
\* is back at 0, and the last call to end was rejected by the storage
C18_Witness ==
    /\ upsert_count = 0
    /\ ret.status = "rejected" /\ ret.branch = "storage"
    /\ \E p, q \in Procs :
          /\ p # q
          /\ calls[p].pc = "sweep"
          /\ calls[q].op = "upsert" /\ calls[q].pc # "sweep"

\* C19: no step that changes the table or the purge counter is a step of
\* find, findByUid, findByUserCode or getAll; every such step is the step of
\* a writing call.
C19_ReadsChangeNothing ==
    [][(store' # store \/ upsert_count' # upsert_count) =>
          /\ now' = now /\ ret'.op \in {"upsert", "consume", "destroy",
                                        "revokeByGrantId", "purgeExpired"}
          /\ ~ \E id \in Ids : find(id)
          /\ ~ \E u \in Uids : findByUid(u)
          /\ ~ \E c \in UserCodes : findByUserCode(c)
          /\ ~ \E n \in Names : getAll(n)]_vars

\* an expired record that find hides is still stored, one step short of the
\* sweep
C19_Witness ==
    /\ upsert_count = PURGE_AFTER_UPSERT_EVERY - 1
    /\ \E r \in store :
          /\ ExpiredAt(r, now)
          /\ findResult(store, r.id, now) = {NULL}
          /\ r \in getAllResult(store, r.name)

\* C20: consume, destroy and revokeByGrantId called on an instance of one
\* namespace leave every record of another namespace as it is.
C20_ScopedToNamespace ==
    [][\A n \in Names :
          (\/ \E id \in Ids : consume(n, id) \/ destroy(n, id)
           \/ \E g \in GrantIds : revokeByGrantId(n, g)) =>
              \A r \in store : r.name # n => r \in store']_vars

====
